---- MODULE Spec2Model ----
(***************************************************************************)
(* Graph-aware retrieval of src/main.py: the /retrieve_db handler, the     *)
(* linked-note resolver search_linked_notes and the link extractor         *)
(* extract_obsidian_links.  A string is a sequence of one-character        *)
(* strings; a similarity score is an integer number of hundredths.         *)
(***************************************************************************)
EXTENDS Integers, Sequences, FiniteSets, TLC

VARIABLES
    pc,                 \* position of the handler
    text,               \* request.args.get('text')
    top_k_param,        \* request.args.get('top_k', None)
    follow_param,       \* request.args.get('follow_links', 'true')
    follow_links,       \* the flag of line 130
    top_k,              \* the resolved result count
    stats,              \* the reply of index.describe_index_stats()
    store,              \* ids of the items the vector store holds
    primary_results,
    all_links,
    linked_note_names,  \* list(all_links), in the order it is iterated
    note_idx,           \* position of the for loop of line 84
    already_found_ids,
    seen_at_call,       \* already_found_ids when search_linked_notes was called
    linked_results,
    matches,            \* what the last call of query_similar_texts returned
    embed_failed,       \* texts whose embedding request raised
    store_reply,        \* the answers the store is bound to give, per embedded
                        \* text; a text outside its domain can get any answer
    calls,              \* external calls made so far, in order
    response

vars == <<pc, text, top_k_param, follow_param, follow_links, top_k, stats, store,
          primary_results, all_links, linked_note_names, note_idx,
          already_found_ids, seen_at_call, linked_results, matches,
          embed_failed, store_reply, calls, response>>

\* Python's None, told apart from every string of characters
None == <<"<None>">>

(***************************************************************************)
(* Bounds of the model.                                                    *)
(***************************************************************************)
NumIds == 2
MaxAnswerLen == 2
MaxNames == 2
MaxTokens == 6

(***************************************************************************)
(* Literals of the program.                                                *)
(***************************************************************************)
\* top_k when the request names none (line 143)
DefaultTopK == 10

\* top_k when the stats reply has no total_vector_count (line 136)
StatsFallback == 10

\* top_k of the search for one linked note (line 91)
LinkedTopK == 3

\* the score a match has to exceed, 0.7, in hundredths (line 104)
ScoreThreshold == 70

(***************************************************************************)
(* Strings.                                                                *)
(***************************************************************************)
\* str.lower() on the alphabet of the model
LowerChar(c) ==
    CASE c = "A" -> "a"
      [] c = "B" -> "b"
      [] c = "C" -> "c"
      [] c = "L" -> "l"
      [] c = "T" -> "t"
      [] OTHER -> c

Lower(s) == [i \in 1..Len(s) |-> LowerChar(s[i])]

\* the operator `in` of two strings
Contains(hay, needle) ==
    \E i \in 0..(Len(hay) - Len(needle)) :
        SubSeq(hay, i + 1, i + Len(needle)) = needle

Whitespace == {" "}

RECURSIVE LStrip(_)
LStrip(s) ==
    IF s # <<>> /\ Head(s) \in Whitespace THEN LStrip(Tail(s)) ELSE s

RECURSIVE RStrip(_)
RStrip(s) ==
    IF s # <<>> /\ s[Len(s)] \in Whitespace
    THEN RStrip(SubSeq(s, 1, Len(s) - 1))
    ELSE s

\* str.strip()
Strip(s) == RStrip(LStrip(s))

Range(s) == {s[i] : i \in 1..Len(s)}

(***************************************************************************)
(* extract_obsidian_links: re.findall of                                   *)
(*     \[\[([^\]|]+)(?:\|[^\]]+)?\]\]                                      *)
(* scans left to right and resumes after the end of each match.            *)
(***************************************************************************)
\* last index of the longest run of characters outside stop that starts at k
RECURSIVE RunEnd(_, _, _)
RunEnd(s, k, stop) ==
    IF k > Len(s) \/ s[k] \in stop THEN k - 1 ELSE RunEnd(s, k + 1, stop)

ClosesAt(s, k) == k + 1 <= Len(s) /\ s[k] = "]" /\ s[k + 1] = "]"

NoMatch == [ok |-> FALSE, name |-> <<>>, end |-> 0]

\* the match of the pattern that starts at position i, if there is one
MatchAt(s, i) ==
    IF ~(i + 1 <= Len(s) /\ s[i] = "[" /\ s[i + 1] = "[") THEN NoMatch
    ELSE LET ne == RunEnd(s, i + 2, {"]", "|"}) IN
         IF ne < i + 2 THEN NoMatch
         ELSE IF ClosesAt(s, ne + 1)
              THEN [ok |-> TRUE, name |-> SubSeq(s, i + 2, ne), end |-> ne + 2]
         ELSE IF ne + 1 <= Len(s) /\ s[ne + 1] = "|"
              THEN LET ae == RunEnd(s, ne + 2, {"]"}) IN
                   IF ae >= ne + 2 /\ ClosesAt(s, ae + 1)
                   THEN [ok |-> TRUE, name |-> SubSeq(s, i + 2, ne), end |-> ae + 2]
                   ELSE NoMatch
         ELSE NoMatch

RECURSIVE FindAll(_, _)
FindAll(s, i) ==
    IF i > Len(s) THEN <<>>
    ELSE LET m == MatchAt(s, i) IN
         IF m.ok THEN <<m.name>> \o FindAll(s, m.end + 1)
         ELSE FindAll(s, i + 1)

\* the name kept with its blanks
CleanLinkUnstripped(link) == link

\* line 67: link.strip()
CleanLink(link) == Strip(link)

\* the list(set(...)) of line 67, as the set it holds
extract_obsidian_links(s) == {CleanLink(link) : link \in Range(FindAll(s, 1))}

(***************************************************************************)
(* int(top_k_param): optional surrounding whitespace, an optional sign,    *)
(* then digits, single underscores allowed between digits.                 *)
(***************************************************************************)
Digits == {"0", "1", "2"}

DigitVal(c) == CASE c = "0" -> 0 [] c = "1" -> 1 [] c = "2" -> 2 [] OTHER -> 0

IsDigits(s) ==
    /\ s # <<>>
    /\ s[1] \in Digits
    /\ s[Len(s)] \in Digits
    /\ \A i \in 1..Len(s) : s[i] \in Digits \/ (s[i] = "_" /\ s[i + 1] \in Digits)

RECURSIVE DigitsVal(_, _)
DigitsVal(s, acc) ==
    IF s = <<>> THEN acc
    ELSE IF Head(s) = "_" THEN DigitsVal(Tail(s), acc)
    ELSE DigitsVal(Tail(s), 10 * acc + DigitVal(Head(s)))

ValueError == [ok |-> FALSE, value |-> 0]

PyInt(s) ==
    LET t == Strip(s)
        signed == t # <<>> /\ Head(t) \in {"+", "-"}
        body == IF signed THEN Tail(t) ELSE t
    IN IF ~IsDigits(body) THEN ValueError
       ELSE [ok |-> TRUE,
             value |-> IF signed /\ Head(t) = "-"
                       THEN 0 - DigitsVal(body, 0)
                       ELSE DigitsVal(body, 0)]

\* only None taken as absent
TruthyUnlessNone(s) == s # None

\* truth value of a request argument: None and '' are falsy
Truthy(s) == s # None /\ s # <<>>

\* the default returned whatever the dict holds
DictGetDefault(d, key, default) == default

\* dict.get(key, default)
DictGet(d, key, default) == IF key \in DOMAIN d THEN d[key] ELSE default

(***************************************************************************)
(* The vector store and the embedding service.                             *)
(***************************************************************************)
Ids == 1..NumIds

Scores == {50, 70, 90}

Fixtures ==
    << <<"[", "[", "A", "b", "]", "]", "[", "[", "c", "|", "x", "]", "]">>,
       <<"A", "B", "[", "[", "x", "]", "]">>,
       <<"z", "z">>,
       <<>> >>

\* metadata text of a stored item
TextOf(id) == Fixtures[((id - 1) % Len(Fixtures)) + 1]

Max(a, b) == IF a >= b THEN a ELSE b
Min(a, b) == IF a <= b THEN a ELSE b

SeqsUpTo(S, n) == UNION {[1..k -> S] : k \in 0..n}

Matches(stored) ==
    {[id |-> i, score |-> sc, text |-> TextOf(i)] : i \in stored, sc \in Scores}

\* the lists query_similar_texts can return for a result count k
Answers(stored, k) == SeqsUpTo(Matches(stored), Max(0, Min(k, MaxAnswerLen)))

\* the lists it can return for the embedding of txt
AnswersFor(bound, stored, txt, k) ==
    IF txt \in DOMAIN bound THEN {bound[txt]} ELSE Answers(stored, k)

StatsReplies ==
    {[dimension |-> 1536]}
    \cup {[dimension |-> 1536, total_vector_count |-> n] : n \in 0..NumIds}

NoStats == [unset |-> TRUE]

\* one external or helper call: its name, its text argument, its count argument
Call(op, txt, k) == [op |-> op, txt |-> txt, k |-> k]

Perms(S) == {f \in [1..Cardinality(S) -> S] : Range(f) = S}

(***************************************************************************)
(* search_linked_notes: the gate of lines 93-108.                          *)
(***************************************************************************)
\* the gate with the threshold included
GateAcceptsAtThreshold(match, note_name) ==
    match.score >= ScoreThreshold \/ Contains(Lower(match.text), Lower(note_name))

\* line 104
GateAccepts(match, note_name) ==
    match.score > ScoreThreshold \/ Contains(Lower(match.text), Lower(note_name))

\* lines 105-106
TagLinked(match, note_name) ==
    [id |-> match.id, score |-> match.score, text |-> match.text,
     source |-> "linked", linked_from |-> note_name]

\* the gate without the test of line 95
GateStepNoDedup(match, note_name, acc) ==
    IF GateAccepts(match, note_name)
    THEN [results |-> Append(acc.results, TagLinked(match, note_name)),
          seen |-> acc.seen \cup {match.id}]
    ELSE acc

\* the gate marking a rejected candidate as seen
GateStepMarksRejected(match, note_name, acc) ==
    IF match.id \in acc.seen THEN acc
    ELSE IF GateAccepts(match, note_name)
         THEN [results |-> Append(acc.results, TagLinked(match, note_name)),
               seen |-> acc.seen \cup {match.id}]
         ELSE [results |-> acc.results, seen |-> acc.seen \cup {match.id}]

\* one pass of the inner loop for one match
GateStep(match, note_name, acc) ==
    IF match.id \in acc.seen THEN acc
    ELSE IF GateAccepts(match, note_name)
         THEN [results |-> Append(acc.results, TagLinked(match, note_name)),
               seen |-> acc.seen \cup {match.id}]
         ELSE acc

\* the inner loop over the matches of one note name
RECURSIVE GateMatches(_, _, _)
GateMatches(ms, note_name, acc) ==
    IF ms = <<>> THEN acc
    ELSE GateMatches(Tail(ms), note_name, GateStep(Head(ms), note_name, acc))

\* the whole function, for a service that fails on the names in failed and a
\* store that answers replies[name]
RECURSIVE search_linked_notes(_, _, _, _)
search_linked_notes(names, failed, replies, acc) ==
    IF names = <<>> THEN acc
    ELSE IF Head(names) \in failed
         THEN search_linked_notes(Tail(names), failed, replies, acc)
         ELSE search_linked_notes(Tail(names), failed, replies,
                  GateMatches(replies[Head(names)], Head(names), acc))

(***************************************************************************)
(* retrieve_db                                                             *)
(***************************************************************************)
ErrorResponse(status, msg) == [status |-> status, kind |-> "error", error |-> msg]

NoResponse == [status |-> 0, kind |-> "none"]

\* the flag stuck at its default
FollowFlagDefault(arg) == TRUE

\* line 130
FollowFlag(arg) == Lower(arg) = <<"t", "r", "u", "e">>

\* the id set left empty
SeedIdsEmpty(results) == {}

\* line 162
SeedIds(results) == {results[i].id : i \in 1..Len(results)}

\* the links kept with their repetitions
ListOfRepeated(S) == {p \o p : p \in Perms(S)}

\* line 172: list(all_links), in any of the orders a set can be iterated
ListOf(S) == Perms(S)

TagPrimary(match) ==
    [id |-> match.id, score |-> match.score, text |-> match.text,
     source |-> "primary"]

\* lines 124-143
Validate ==
    /\ pc = "start"
    /\ IF ~Truthy(text)
       THEN /\ response' = ErrorResponse(400, "No text provided")
            /\ pc' = "done"
            /\ UNCHANGED <<follow_links, top_k>>
       ELSE /\ follow_links' = FollowFlag(follow_param)
            /\ IF Truthy(top_k_param)
               THEN IF Lower(top_k_param) = <<"a", "l", "l">>
                    THEN /\ pc' = "stats"
                         /\ UNCHANGED <<top_k, response>>
                    ELSE IF PyInt(top_k_param).ok
                         THEN /\ top_k' = PyInt(top_k_param).value
                              /\ pc' = "embed"
                              /\ UNCHANGED response
                         ELSE /\ response' = ErrorResponse(400, "Invalid top_k parameter")
                              /\ pc' = "done"
                              /\ UNCHANGED top_k
               ELSE /\ top_k' = DefaultTopK
                    /\ pc' = "embed"
                    /\ UNCHANGED response
    /\ UNCHANGED <<text, top_k_param, follow_param, stats, store, primary_results,
                   all_links, linked_note_names, note_idx, already_found_ids,
                   seen_at_call, linked_results, matches, embed_failed,
                   store_reply, calls>>

\* lines 135-136
DescribeStats ==
    /\ pc = "stats"
    /\ \E reply \in StatsReplies :
          /\ stats' = reply
          /\ top_k' = DictGet(reply, "total_vector_count", StatsFallback)
    /\ calls' = Append(calls, Call("describe_index_stats", <<>>, 0))
    /\ pc' = "embed"
    /\ UNCHANGED <<text, top_k_param, follow_param, follow_links, store,
                   primary_results, all_links, linked_note_names, note_idx,
                   already_found_ids, seen_at_call, linked_results, matches,
                   embed_failed, store_reply, response>>

\* lines 146-148
EmbedQuery ==
    /\ pc = "embed"
    /\ calls' = Append(calls, Call("embed", text, 0))
    /\ \/ /\ embed_failed' = embed_failed \cup {text}
          /\ response' = ErrorResponse(500, "Failed to generate embeddings")
          /\ pc' = "done"
       \/ /\ pc' = "query"
          /\ UNCHANGED <<embed_failed, response>>
    /\ UNCHANGED <<text, top_k_param, follow_param, follow_links, top_k, stats, store,
                   primary_results, all_links, linked_note_names, note_idx,
                   already_found_ids, seen_at_call, linked_results, matches,
                   store_reply>>

\* lines 150-158; a store asked for fewer than one result may refuse the query
PrimaryQuery ==
    /\ pc = "query"
    /\ calls' = Append(calls, Call("query", text, top_k))
    /\ \/ /\ top_k < 1
          /\ response' = ErrorResponse(500, "Internal Server Error")
          /\ pc' = "done"
          /\ UNCHANGED <<primary_results, matches>>
       \/ \E answer \in AnswersFor(store_reply, store, text, top_k) :
             /\ matches' = answer
             /\ primary_results' = [i \in 1..Len(answer) |-> TagPrimary(answer[i])]
             /\ IF ~follow_links
                THEN /\ response' = [status |-> 200, kind |-> "list",
                                     body |-> primary_results']
                     /\ pc' = "done"
                ELSE /\ pc' = "phase2"
                     /\ UNCHANGED response
    /\ UNCHANGED <<text, top_k_param, follow_param, follow_links, top_k, stats, store,
                   all_links, linked_note_names, note_idx, already_found_ids,
                   seen_at_call, linked_results, embed_failed, store_reply>>

\* lines 161-175, up to the call of search_linked_notes
CollectLinks ==
    /\ pc = "phase2"
    /\ all_links' = UNION {extract_obsidian_links(primary_results[i].text) :
                              i \in 1..Len(primary_results)}
    /\ already_found_ids' = SeedIds(primary_results)
    /\ calls' = calls \o [i \in 1..Len(primary_results) |->
                             Call("extract_obsidian_links", primary_results[i].text, 0)]
    /\ seen_at_call' = already_found_ids'
    /\ IF all_links' # {}
       THEN /\ linked_note_names' \in ListOf(all_links')
            /\ pc' = "linked_embed"
       ELSE /\ linked_note_names' = <<>>
            /\ pc' = "assemble"
    /\ note_idx' = 1
    /\ UNCHANGED <<text, top_k_param, follow_param, follow_links, top_k, stats, store,
                   primary_results, linked_results, matches, embed_failed,
                   store_reply, response>>

\* a failed embedding that ends the loop
AfterFailureBreak(idx, names) == Len(names) + 1

\* line 88: continue with the next note name
AfterFailure(idx, names) == idx + 1

\* lines 84-88
LinkedEmbed ==
    /\ pc = "linked_embed"
    /\ note_idx <= Len(linked_note_names)
    /\ calls' = Append(calls, Call("embed", linked_note_names[note_idx], 0))
    /\ \/ /\ embed_failed' = embed_failed \cup {linked_note_names[note_idx]}
          /\ note_idx' = AfterFailure(note_idx, linked_note_names)
          /\ UNCHANGED pc
       \/ /\ pc' = "linked_query"
          /\ UNCHANGED <<embed_failed, note_idx>>
    /\ UNCHANGED <<text, top_k_param, follow_param, follow_links, top_k, stats, store,
                   primary_results, all_links, linked_note_names, already_found_ids,
                   seen_at_call, linked_results, matches, store_reply, response>>

\* lines 91-108
LinkedQuery ==
    /\ pc = "linked_query"
    /\ calls' = Append(calls, Call("query", linked_note_names[note_idx], LinkedTopK))
    /\ \E answer \in AnswersFor(store_reply, store, linked_note_names[note_idx],
                                LinkedTopK) :
          LET acc == GateMatches(answer, linked_note_names[note_idx],
                                 [results |-> linked_results,
                                  seen |-> already_found_ids])
          IN /\ matches' = answer
             /\ linked_results' = acc.results
             /\ already_found_ids' = acc.seen
    /\ note_idx' = note_idx + 1
    /\ pc' = "linked_embed"
    /\ UNCHANGED <<text, top_k_param, follow_param, follow_links, top_k, stats, store,
                   primary_results, all_links, linked_note_names, seen_at_call,
                   embed_failed, store_reply, response>>

\* line 110
ReturnLinked ==
    /\ pc = "linked_embed"
    /\ note_idx > Len(linked_note_names)
    /\ pc' = "assemble"
    /\ UNCHANGED <<text, top_k_param, follow_param, follow_links, top_k, stats, store,
                   primary_results, all_links, linked_note_names, note_idx,
                   already_found_ids, seen_at_call, linked_results, matches,
                   embed_failed, store_reply, calls, response>>

\* lines 178-185
Assemble ==
    /\ pc = "assemble"
    /\ response' = [status |-> 200, kind |-> "object",
                    primary_results |-> primary_results,
                    linked_results |-> linked_results,
                    extracted_links |-> linked_note_names,
                    hint |-> "linked_results come from notes linked in primary_results"]
    /\ pc' = "done"
    /\ UNCHANGED <<text, top_k_param, follow_param, follow_links, top_k, stats, store,
                   primary_results, all_links, linked_note_names, note_idx,
                   already_found_ids, seen_at_call, linked_results, matches,
                   embed_failed, store_reply, calls>>

(***************************************************************************)
(* Requests and specifications.                                            *)
(***************************************************************************)
Query == <<"q">>

TextArgs == {None, <<>>, Query}

TopKArgs ==
    {None, <<>>, <<"a", "l", "l">>, <<"A", "l", "L">>, <<"1">>, <<"2">>,
     <<" ", "2">>, <<"-", "1">>, <<"1", "_", "0">>, <<"x">>, <<"2", "x">>,
     <<"1", "_">>}

FollowArgs == {<<"t", "r", "u", "e">>, <<"T", "r", "u", "e">>,
               <<"f", "a", "l", "s", "e">>}

Untouched ==
    /\ linked_results = <<>>
    /\ note_idx = 1
    /\ matches = <<>>
    /\ embed_failed = {}
    /\ calls = <<>>
    /\ response = NoResponse

Locals ==
    /\ follow_links = FALSE
    /\ top_k = 0
    /\ stats = NoStats
    /\ primary_results = <<>>
    /\ all_links = {}
    /\ linked_note_names = <<>>
    /\ already_found_ids = {}
    /\ seen_at_call = {}
    /\ Untouched

\* any request against any store, free to answer each search as it likes; the
\* requests that follow links ask for one primary result
Init ==
    /\ pc = "start"
    /\ text \in TextArgs
    /\ top_k_param \in TopKArgs
    /\ follow_param \in FollowArgs
    /\ (Lower(follow_param) = <<"t", "r", "u", "e">>) => (top_k_param = <<"1">>)
    /\ store \in SUBSET Ids
    /\ store_reply = <<>>
    /\ Locals

Next ==
    \/ Validate
    \/ DescribeStats
    \/ EmbedQuery
    \/ PrimaryQuery
    \/ CollectLinks
    \/ LinkedEmbed
    \/ LinkedQuery
    \/ ReturnLinked
    \/ Assemble

Spec == Init /\ [][Next]_vars

NoteNames == {<<"A", "b">>, <<"c">>, <<"x">>}

\* a link-following request for one primary result, against a store that
\* gives the same answer whenever it is asked for the same note name
InitBound ==
    /\ pc = "start"
    /\ text = Query
    /\ top_k_param = <<"1">>
    /\ follow_param \in {<<"t", "r", "u", "e">>, <<"T", "r", "u", "e">>}
    /\ store = Ids
    /\ store_reply \in [{<<"A", "b">>, <<"c">>} -> Answers(Ids, LinkedTopK)]
    /\ Locals

\* a numeric top_k needs no stats call
NextBound ==
    \/ Validate
    \/ EmbedQuery
    \/ PrimaryQuery
    \/ CollectLinks
    \/ LinkedEmbed
    \/ LinkedQuery
    \/ ReturnLinked
    \/ Assemble

SpecBound == InitBound /\ [][NextBound]_vars

\* search_linked_notes on its own: any list of distinct note names and any
\* already_found_ids
NameLists ==
    {l \in SeqsUpTo(NoteNames, MaxNames) : Cardinality(Range(l)) = Len(l)}

LinkedCall ==
    /\ pc = "linked_embed"
    /\ text = Query
    /\ top_k_param = None
    /\ follow_param = <<"t", "r", "u", "e">>
    /\ store = Ids
    /\ follow_links = TRUE
    /\ top_k = 10
    /\ stats = NoStats
    /\ primary_results = <<>>
    /\ linked_note_names \in NameLists
    /\ all_links = Range(linked_note_names)
    /\ already_found_ids \in SUBSET Ids
    /\ seen_at_call = already_found_ids
    /\ Untouched

InitLinked == LinkedCall /\ store_reply = <<>>

NextLinked == LinkedEmbed \/ LinkedQuery \/ ReturnLinked

SpecLinked == InitLinked /\ [][NextLinked]_vars

\* the same call against a store bound to one answer per note name
InitLinkedBound ==
    /\ LinkedCall
    /\ store_reply \in [Range(linked_note_names) -> Answers(Ids, LinkedTopK)]

NextLinkedBound == LinkedEmbed \/ LinkedQuery \/ ReturnLinked

SpecLinkedBound == InitLinkedBound /\ [][NextLinkedBound]_vars

\* link collection on its own: one primary result with any text of at most
\* MaxTokens tokens
Tokens == {<<"[", "[">>, <<"]", "]">>, <<"[">>, <<"]">>, <<"|">>, <<" ">>,
           <<"A">>, <<"B">>}

RECURSIVE Flatten(_)
Flatten(ts) == IF ts = <<>> THEN <<>> ELSE Head(ts) \o Flatten(Tail(ts))

InitExtract ==
    /\ pc = "phase2"
    /\ text = Query
    /\ top_k_param = None
    /\ follow_param = <<"t", "r", "u", "e">>
    /\ store = Ids
    /\ follow_links = TRUE
    /\ top_k = 10
    /\ stats = NoStats
    /\ \E n \in 0..MaxTokens : \E ts \in [1..n -> Tokens] :
          primary_results = <<[id |-> 1, score |-> 90, text |-> Flatten(ts),
                               source |-> "primary"]>>
    /\ all_links = {}
    /\ linked_note_names = <<>>
    /\ already_found_ids = {}
    /\ seen_at_call = {}
    /\ store_reply = <<>>
    /\ Untouched

NextExtract == CollectLinks

SpecExtract == InitExtract /\ [][NextExtract]_vars

(***************************************************************************)
(* Markers of a text, by their form: every place where a substring         *)
(* [[<name>]] or [[<name>|<alias>]] occurs.                                *)
(***************************************************************************)
IsName(n) == n # <<>> /\ \A c \in Range(n) : c \notin {"]", "|"}

IsAlias(a) == a # <<>> /\ "]" \notin Range(a)

IsMarker(s, i, j, k) ==
    /\ i + 2 <= k /\ k <= j - 2
    /\ s[i] = "[" /\ s[i + 1] = "["
    /\ s[j - 1] = "]" /\ s[j] = "]"
    /\ IsName(SubSeq(s, i + 2, k))
    /\ \/ k = j - 2
       \/ /\ k + 2 <= j - 2
          /\ s[k + 1] = "|"
          /\ IsAlias(SubSeq(s, k + 2, j - 2))

\* from/to: first and last position of the marker; name: its <name>
MarkerSet(s) ==
    UNION {UNION {{[from |-> i, to |-> j, name |-> SubSeq(s, i + 2, k)] :
                      k \in {k \in (i + 2)..(j - 2) : IsMarker(s, i, j, k)}} :
                  j \in {j \in (i + 4)..Len(s) : s[j - 1] = "]" /\ s[j] = "]"}} :
           i \in {i \in 1..(Len(s) - 1) : s[i] = "[" /\ s[i + 1] = "["}}

AllMarkerNames(s) == {Strip(m.name) : m \in MarkerSet(s)}

\* the markers a reader meets going left to right, each one the first marker
\* that starts after the end of the one before
RECURSIVE ScanMarkers(_, _)
ScanMarkers(ms, i) ==
    LET ahead == {m \in ms : m.from >= i} IN
    IF ahead = {} THEN {}
    ELSE LET m == CHOOSE m \in ahead : \A o \in ahead : m.from <= o.from
         IN {m} \cup ScanMarkers(ms, m.to + 1)

Collected == pc \in {"linked_embed", "assemble"} /\ Len(primary_results) = 1

IdsOf(results) == {results[i].id : i \in 1..Len(results)}

Returned == pc = "assemble"

Match(i, sc) == [id |-> i, score |-> sc, text |-> TextOf(i)]

Linked(i, sc, name) ==
    [id |-> i, score |-> sc, text |-> TextOf(i), source |-> "linked",
     linked_from |-> name]

\* C2: when search_linked_notes returns, no returned id was in already_seen at
\* the call, and every returned id is in already_seen.
C2_Dedup ==
    Returned =>
        /\ IdsOf(linked_results) \cap seen_at_call = {}
        /\ IdsOf(linked_results) \subseteq already_found_ids

\* the store offered an id that was already seen and one that was not, and the
\* call returned
C2_Witness ==
    /\ Returned
    /\ seen_at_call = {1}
    /\ linked_note_names = << <<"A", "b">> >>
    /\ matches = <<Match(1, 90), Match(2, 90)>>
    /\ IdsOf(linked_results) = {2}
    /\ already_found_ids = {1, 2}

\* C3: a candidate whose id is not yet in already_seen is appended, tagged
\* linked and linked_from the note name, exactly when its score exceeds 0.7 or
\* the lower-cased note name occurs in its lower-cased text.
C3_Gate ==
    [][(pc = "linked_query" /\ pc' = "linked_embed") =>
        LET name == linked_note_names[note_idx]
            reply == matches'
            added == SubSeq(linked_results', Len(linked_results) + 1,
                            Len(linked_results'))
        IN \A k \in 1..Len(reply) :
              (/\ reply[k].id \notin already_found_ids
               /\ \A j \in 1..(k - 1) : reply[j].id # reply[k].id)
              => ((\E a \in 1..Len(added) :
                      added[a] = Linked(reply[k].id, reply[k].score, name))
                  <=> (\/ reply[k].score > 70
                       \/ Contains(Lower(reply[k].text), Lower(name))))]_vars

\* score 0.5 with the name in the text: accepted for the first name; for the
\* second name, score 0.5 without the name: rejected, then score 0.9 without
\* the name: accepted
C3_Witness ==
    /\ Returned
    /\ seen_at_call = {}
    /\ linked_note_names = << <<"A", "b">>, <<"c">> >>
    /\ matches = <<Match(2, 50), Match(2, 90)>>
    /\ linked_results = <<Linked(1, 50, <<"A", "b">>), Linked(2, 90, <<"c">>)>>

\* C10: whatever the order of the note names, the ids returned and the final
\* already_seen are the same.
C10_OrderIndependent ==
    Returned =>
        \A order \in Perms(Range(linked_note_names)) :
            LET other == search_linked_notes(order, embed_failed, store_reply,
                             [results |-> <<>>, seen |-> seen_at_call])
            IN /\ IdsOf(other.results) = IdsOf(linked_results)
               /\ other.seen = already_found_ids

\* a candidate the gate rejected under the first name was accepted under the
\* second
C10_Witness ==
    /\ Returned
    /\ seen_at_call = {}
    /\ linked_note_names = << <<"c">>, <<"A", "b">> >>
    /\ store_reply[<<"c">>] = <<Match(2, 50)>>
    /\ store_reply[<<"A", "b">>] = <<Match(2, 50)>>
    /\ linked_results = <<Linked(2, 50, <<"A", "b">>)>>

(***************************************************************************)
(* Properties of a link-following request (Spec, SpecBound).               *)
(***************************************************************************)
Answered == pc = "done" /\ response.kind = "object"

CallsOf(op) == {i \in 1..Len(calls) : calls[i].op = op}

SecondaryQueries == {i \in CallsOf("query") : calls[i].txt # text}

Without(names, failed) == SelectSeq(names, LAMBDA n : n \notin failed)

\* C1: in the response of a link-following request no linked result has the id
\* of a primary result and no id occurs twice among the linked results.
C1_UniqueIds ==
    Answered =>
        /\ IdsOf(response.linked_results) \cap IdsOf(response.primary_results) = {}
        /\ \A i, j \in 1..Len(response.linked_results) :
              response.linked_results[i].id = response.linked_results[j].id => i = j

\* the search for the second name offered the primary result and the item
\* already linked from the first name
C1_Witness ==
    /\ Answered
    /\ IdsOf(response.primary_results) = {1}
    /\ response.extracted_links = << <<"A", "b">>, <<"c">> >>
    /\ matches = <<Match(1, 90), Match(2, 90)>>
    /\ response.linked_results = <<Linked(2, 50, <<"A", "b">>)>>

\* C4: once the primary search has answered, a note name whose embedding fails
\* is skipped and nothing else: it is not searched, every other name is
\* embedded and searched, the linked results are those of the list without the
\* failing names, and the response is the 200 object.
C4_FailureIsLocal ==
    (pc = "done" /\ linked_note_names # <<>>
        /\ Range(linked_note_names) \subseteq DOMAIN store_reply) =>
        /\ response.status = 200
        /\ response.kind = "object"
        /\ \A n \in Range(linked_note_names) :
              /\ \E i \in CallsOf("embed") : calls[i].txt = n
              /\ (n \in embed_failed) <=> ~(\E i \in CallsOf("query") : calls[i].txt = n)
        /\ LET rest == search_linked_notes(Without(linked_note_names, embed_failed),
                           {}, store_reply,
                           [results |-> <<>>, seen |-> seen_at_call])
           IN /\ response.linked_results = rest.results
              /\ already_found_ids = rest.seen

\* the first name failed and the second still produced a linked result
C4_Witness ==
    /\ Answered
    /\ linked_note_names = << <<"A", "b">>, <<"c">> >>
    /\ embed_failed = {<<"A", "b">>}
    /\ response.linked_results = <<Linked(2, 90, <<"c">>)>>

\* what is left to do: the phases still ahead, then, inside the loop of
\* search_linked_notes, the steps still ahead
PhasesLeft ==
    CASE pc = "start" -> 5
      [] pc = "stats" -> 4
      [] pc = "embed" -> 3
      [] pc = "query" -> 2
      [] pc = "phase2" -> 1
      [] OTHER -> 0

StepsLeft ==
    CASE pc = "linked_embed" -> 2 * (Len(linked_note_names) + 1 - note_idx) + 2
      [] pc = "linked_query" -> 2 * (Len(linked_note_names) + 1 - note_idx) + 1
      [] pc = "assemble" -> 1
      [] OTHER -> 0

CallsReturn == pc # "done" => ENABLED Next

Progress ==
    \/ PhasesLeft' < PhasesLeft
    \/ PhasesLeft' = PhasesLeft /\ StepsLeft' < StepsLeft

C9_OneHopSafety ==
    Answered =>
        /\ Cardinality(CallsOf("query") \ SecondaryQueries) = 1
        /\ all_links = UNION {extract_obsidian_links(response.primary_results[i].text) :
                                 i \in 1..Len(response.primary_results)}
        /\ \A i \in SecondaryQueries : calls[i].txt \in all_links
        /\ \A i, j \in SecondaryQueries : calls[i].txt = calls[j].txt => i = j
        /\ Cardinality(CallsOf("extract_obsidian_links")) = Len(response.primary_results)
        /\ \A i \in CallsOf("extract_obsidian_links") :
              \E r \in 1..Len(response.primary_results) :
                  calls[i].txt = response.primary_results[r].text

All == <<"a", "l", "l">>

\* the top_k arguments that are integers, with their values
IntegerArgs ==
    {<<(<<"1">>), 1>>, <<(<<"2">>), 2>>, <<(<<" ", "2">>), 2>>,
     <<(<<"-", "1">>), 0 - 1>>, <<(<<"1", "_", "0">>), 10>>}

IsIntegerArg(arg) == \E p \in IntegerArgs : p[1] = arg

IntegerValue(arg) == (CHOOSE p \in IntegerArgs : p[1] = arg)[2]

Validated == pc # "start" /\ Truthy(text)

Rejected ==
    /\ pc = "done"
    /\ response = [status |-> 400, kind |-> "error",
                   error |-> "Invalid top_k parameter"]
    /\ calls = <<>>

PrimaryQueries == {i \in CallsOf("query") : calls[i].txt = text}

\* C5 as stated: top_k defaults to 10 when absent, "all" resolves to the
\* store's total item count, and every other supplied value that is not an
\* integer, the empty string included, is rejected with 400 before any call.
C5_AsStated ==
    Validated =>
        /\ (top_k_param = None) => (top_k = 10 /\ response.status # 400)
        /\ (top_k_param = All) =>
              (pc = "stats" \/ ("total_vector_count" \in DOMAIN stats
                                /\ top_k = stats.total_vector_count))
        /\ (top_k_param \notin {None, All} /\ ~IsIntegerArg(top_k_param)) => Rejected

\* C5 amended: top_k defaults to 10 when it is absent or the empty string;
\* "all" in any letter case resolves it, through the stats call, to the
\* reported total_vector_count (10 when the reply has none); an integer is
\* taken as it is; every other value is rejected with 400 before any
\* embedding, stats or search call.
C5_Validation ==
    Validated =>
        IF top_k_param \in {None, <<>>}
        THEN top_k = 10 /\ response.status # 400 /\ CallsOf("describe_index_stats") = {}
        ELSE IF Lower(top_k_param) = All
        THEN /\ response.status # 400
             /\ \/ pc = "stats" /\ calls = <<>>
                \/ /\ calls[1].op = "describe_index_stats"
                   /\ stats \in StatsReplies
                   /\ top_k = IF "total_vector_count" \in DOMAIN stats
                              THEN stats.total_vector_count ELSE 10
        ELSE IF IsIntegerArg(top_k_param)
        THEN /\ top_k = IntegerValue(top_k_param)
             /\ response.status # 400
             /\ CallsOf("describe_index_stats") = {}
        ELSE Rejected

\* a malformed top_k was rejected
C5_Witness ==
    /\ Validated
    /\ top_k_param = <<"2", "x">>
    /\ Rejected

\* C6 as stated: with top_k=all the count passed to the primary search equals
\* the total the stats call reports, whatever the reply, never a fixed default.
C6_AsStated ==
    \A i \in PrimaryQueries :
        Lower(top_k_param) = All =>
            /\ "total_vector_count" \in DOMAIN stats
            /\ calls[i].k = stats.total_vector_count

\* C6 amended: with top_k=all the count passed to the primary search equals
\* the total_vector_count of the stats reply made in this request whenever the
\* reply carries one; for a reply without it the count is the fallback 10.
C6_StatsCount ==
    \A i \in PrimaryQueries :
        Lower(top_k_param) = All =>
            /\ i = 3
            /\ calls[1].op = "describe_index_stats"
            /\ stats \in StatsReplies
            /\ calls[i].k = IF "total_vector_count" \in DOMAIN stats
                            THEN stats.total_vector_count ELSE 10

\* the store reported one item and the primary search asked for one result
C6_Witness ==
    /\ pc = "done"
    /\ top_k_param = All
    /\ stats = [dimension |-> 1536, total_vector_count |-> 1]
    /\ PrimaryQueries = {3}
    /\ calls[3].k = 1
    /\ response.status = 200

\* C7: with follow_links off, a successful response is the list the primary
\* search returned, each result tagged primary, and the request made one
\* embedding call, one search and no link extraction.
C7_FlatResponse ==
    (pc = "done" /\ response.status = 200 /\ Lower(follow_param) # <<"t", "r", "u", "e">>) =>
        /\ response.kind = "list"
        /\ response.body = [i \in 1..Len(matches) |->
              [id |-> matches[i].id, score |-> matches[i].score,
               text |-> matches[i].text, source |-> "primary"]]
        /\ CallsOf("extract_obsidian_links") = {}
        /\ Cardinality(CallsOf("embed")) = 1
        /\ Cardinality(CallsOf("query")) = 1
        /\ all_links = {} /\ linked_results = <<>>

\* a flat response whose only result holds link markers
C7_Witness ==
    /\ pc = "done"
    /\ follow_param = <<"f", "a", "l", "s", "e">>
    /\ response.kind = "list"
    /\ Len(response.body) = 1
    /\ response.body[1].id = 1
    /\ extract_obsidian_links(response.body[1].text) # {}

====
